---- MODULE Spec2Model ----
(***************************************************************************)
(* Model of the invoice pipeline: the field extractor                      *)
(* (preprocessing/field_extraction.py), the anomaly rule engine and the    *)
(* duplicate tracker (models/anomaly_detection.py) and the request         *)
(* handlers that share one tracker (api/main.py).                          *)
(*                                                                         *)
(* Representation.                                                         *)
(*   - A Python str is a sequence of characters, each character a string   *)
(*     of its own (<<"A","C","M","E">>).  The currency signs outside ASCII *)
(*     are the characters "<euro>", "<pound>" and "<rupee>".               *)
(*   - Optional[T] is a sequence of length 0 (None) or 1 (the value).      *)
(*   - A float amount is a fixed-point integer of thousandths: 100.0 is    *)
(*     100000.  Arithmetic on amounts is exact.                            *)
(***************************************************************************)
EXTENDS Integers, Sequences, FiniteSets, TLC

VARIABLES
    seen_keys,   \* DuplicateDetector._seen_keys of the tracker under test
    built,       \* history: fingerprints built by the calls made so far
    call,        \* the last call on the rule engine: its input and its output
    text,        \* extractor: the raw text of the document under extraction
    ex,          \* extractor: program position and results of the pipeline
    tasks,       \* API: the request coroutines (endpoint, document, position)
    running,     \* API: the coroutine the event loop is running, 0 when none
    api_seen     \* API: _seen_keys of the module-level duplicate_detector

vars == <<seen_keys, built, call, text, ex, tasks, running, api_seen>>

(***************************************************************************)
(* Optional values and characters                                          *)
(***************************************************************************)
None == << >>
Some(x) == << x >>
IsNone(o) == Len(o) = 0
Val(o) == o[1]

UpperLetters == <<"A","B","C","D","E","F","G","H","I","J","K","L","M",
                  "N","O","P","Q","R","S","T","U","V","W","X","Y","Z">>
LowerLetters == <<"a","b","c","d","e","f","g","h","i","j","k","l","m",
                  "n","o","p","q","r","s","t","u","v","w","x","y","z">>
DigitChars == <<"0","1","2","3","4","5","6","7","8","9">>

Range(q) == { q[k] : k \in 1..Len(q) }
Upper == Range(UpperLetters)
Lower == Range(LowerLetters)
Letters == Upper \cup Lower
Digits == Range(DigitChars)
CurrencySigns == {"$", "<euro>", "<pound>", "<rupee>"}
Whitespace == {" ", "\t", "\n"}
Punct == {":", "#", "-", "/", ".", ",", "|", "_"}
\* every character a modelled text can hold
Chars == Letters \cup Digits \cup CurrencySigns \cup Whitespace \cup Punct
WordChars == Letters \cup Digits \cup {"_"}

IndexIn(q, c) == CHOOSE k \in 1..Len(q) : q[k] = c
DigitVal(c) == IndexIn(DigitChars, c) - 1
ToLowerChar(c) == IF c \in Upper THEN LowerLetters[IndexIn(UpperLetters, c)] ELSE c
ToUpperChar(c) == IF c \in Lower THEN UpperLetters[IndexIn(LowerLetters, c)] ELSE c
\* str.lower()
StrLower(s) == [k \in 1..Len(s) |-> ToLowerChar(s[k])]

RECURSIVE LStrip(_)
LStrip(s) == IF Len(s) > 0 /\ s[1] \in Whitespace THEN LStrip(Tail(s)) ELSE s
RECURSIVE RStrip(_)
RStrip(s) ==
    IF Len(s) > 0 /\ s[Len(s)] \in Whitespace THEN RStrip(SubSeq(s, 1, Len(s) - 1)) ELSE s
\* str.strip()
Strip(s) == RStrip(LStrip(s))

IsBreakIn(s) == [j \in 1..Len(s) |-> s[j] = "\n"]
\* str.splitlines(): the pieces between the line breaks; a line break at the
\* end opens no further line
SplitLines(s) ==
    LET breaks == SelectSeq([j \in 1..Len(s) |-> j], LAMBDA j : IsBreakIn(s)[j])
        edges == <<0>> \o breaks \o <<Len(s) + 1>>
        pieces == [k \in 1..(Len(edges) - 1) |-> SubSeq(s, edges[k] + 1, edges[k + 1] - 1)]
    IN  IF Len(pieces[Len(pieces)]) = 0 THEN SubSeq(pieces, 1, Len(pieces) - 1) ELSE pieces

RECURSIVE Join(_, _)
\* sep.join(parts)
Join(parts, sep) ==
    IF Len(parts) = 0 THEN << >>
    ELSE IF Len(parts) = 1 THEN parts[1]
    ELSE parts[1] \o sep \o Join(Tail(parts), sep)

(***************************************************************************)
(* Regular expressions, with the backtracking order of Python's re: a      *)
(* pattern is a tree, Match gives every way the pattern matches at a       *)
(* position, in the order the backtracking matcher tries them, so the head *)
(* is the match re finds there.  Groups are numbered 1..3.                 *)
(***************************************************************************)
NoCaps == << << >>, << >>, << >> >>
Out(i, caps) == [pos |-> i, caps |-> caps]

RSet(cs) == [k |-> "set", cs |-> cs]
RCh(c) == RSet({c})
\* a character under re.IGNORECASE
RChI(c) == RSet({ToLowerChar(c), ToUpperChar(c)})
RSeq(rs) == [k |-> "seq", rs |-> rs]
RAlt(rs) == [k |-> "alt", rs |-> rs]
\* r{min,max}; max = -1 is no upper limit
RRep(r, min, max, greedy) == [k |-> "rep", r |-> r, min |-> min, max |-> max, greedy |-> greedy]
RStar(r) == RRep(r, 0, -1, TRUE)
RPlus(r) == RRep(r, 1, -1, TRUE)
ROpt(r) == RRep(r, 0, 1, TRUE)
RGrp(n, r) == [k |-> "grp", n |-> n, r |-> r]
RWordB == [k |-> "wb"]
REnd == [k |-> "end"]
RLit(s) == RSeq([j \in 1..Len(s) |-> RCh(s[j])])
RLitI(s) == RSeq([j \in 1..Len(s) |-> RChI(s[j])])
RDigit == RSet(Digits)
RSpace == RSet(Whitespace)
\* "." and [^\n]
RDot == RSet(Chars \ {"\n"})

IsWordAt(s, i) == i >= 1 /\ i <= Len(s) /\ s[i] \in WordChars

RECURSIVE Match(_, _, _, _)
RECURSIVE MatchSeq(_, _, _, _, _)
RECURSIVE SeqThen(_, _, _, _, _)
RECURSIVE MatchAlt(_, _, _, _, _)
RECURSIVE MatchRep(_, _, _, _, _)
RECURSIVE RepThen(_, _, _, _, _)

Match(r, s, i, caps) ==
    CASE r.k = "set" ->
            IF i <= Len(s) /\ s[i] \in r.cs THEN << Out(i + 1, caps) >> ELSE << >>
      [] r.k = "wb" ->
            IF IsWordAt(s, i - 1) # IsWordAt(s, i) THEN << Out(i, caps) >> ELSE << >>
      [] r.k = "end" ->
            \* "$" without re.MULTILINE: the end, or before a final line break
            IF i = Len(s) + 1 \/ (i = Len(s) /\ s[i] = "\n")
            THEN << Out(i, caps) >> ELSE << >>
      [] r.k = "seq" -> MatchSeq(r.rs, 1, s, i, caps)
      [] r.k = "alt" -> MatchAlt(r.rs, 1, s, i, caps)
      [] r.k = "rep" -> MatchRep(r, 0, s, i, caps)
      [] r.k = "grp" ->
            LET inner == Match(r.r, s, i, caps)
            IN  [j \in 1..Len(inner) |->
                    Out(inner[j].pos, [inner[j].caps EXCEPT ![r.n] = <<i, inner[j].pos>>])]

MatchSeq(rs, idx, s, i, caps) ==
    IF idx > Len(rs) THEN << Out(i, caps) >>
    ELSE SeqThen(Match(rs[idx], s, i, caps), 1, rs, idx, s)

SeqThen(outs, j, rs, idx, s) ==
    IF j > Len(outs) THEN << >>
    ELSE MatchSeq(rs, idx + 1, s, outs[j].pos, outs[j].caps)
            \o SeqThen(outs, j + 1, rs, idx, s)

MatchAlt(rs, idx, s, i, caps) ==
    IF idx > Len(rs) THEN << >>
    ELSE Match(rs[idx], s, i, caps) \o MatchAlt(rs, idx + 1, s, i, caps)

MatchRep(r, count, s, i, caps) ==
    LET stop == IF count >= r.min THEN << Out(i, caps) >> ELSE << >>
        more == IF r.max = -1 \/ count < r.max
                THEN RepThen(Match(r.r, s, i, caps), 1, r, count, s)
                ELSE << >>
    IN  IF r.greedy THEN more \o stop ELSE stop \o more

RepThen(outs, j, r, count, s) ==
    IF j > Len(outs) THEN << >>
    ELSE MatchRep(r, count + 1, s, outs[j].pos, outs[j].caps)
            \o RepThen(outs, j + 1, r, count, s)

\* re.search: the leftmost position with a match and the match found there,
\* None when there is none
Search(r, s) ==
    LET hits == {i \in 1..(Len(s) + 1) : Len(Match(r, s, i, NoCaps)) > 0}
    IN  IF hits = {} THEN None
        ELSE LET first == CHOOSE i \in hits : \A j \in hits : i <= j
                 found == Match(r, s, first, NoCaps)[1]
             IN  Some([start |-> first, pos |-> found.pos, caps |-> found.caps])

\* re.match: a match at the start only
MatchAtStart(r, s) ==
    LET outs == Match(r, s, 1, NoCaps)
    IN  IF Len(outs) > 0
        THEN Some([start |-> 1, pos |-> outs[1].pos, caps |-> outs[1].caps])
        ELSE None

\* m.group(n)
Group(s, m, n) == SubSeq(s, m.caps[n][1], m.caps[n][2] - 1)

(***************************************************************************)
(* Numbers and dates                                                       *)
(***************************************************************************)
Abs(x) == IF x < 0 THEN -x ELSE x
Min2(a, b) == IF a < b THEN a ELSE b

RECURSIVE NatStr(_)
\* str(n) of a natural number
NatStr(n) == IF n < 10 THEN << DigitChars[n + 1] >>
             ELSE NatStr(n \div 10) \o << DigitChars[(n % 10) + 1] >>

RECURSIVE IntOf(_)
\* int(s) of a string of digits
IntOf(s) == IF Len(s) = 0 THEN 0
            ELSE IntOf(SubSeq(s, 1, Len(s) - 1)) * 10 + DigitVal(s[Len(s)])

RECURSIVE ZeroPad(_, _)
ZeroPad(s, width) == IF Len(s) >= width THEN s ELSE ZeroPad(<<"0">> \o s, width)

RECURSIVE DropTrailingZeros(_)
DropTrailingZeros(s) ==
    IF Len(s) > 1 /\ s[Len(s)] = "0" THEN DropTrailingZeros(SubSeq(s, 1, Len(s) - 1)) ELSE s

\* str(x) / f"{x}" of a float amount: 100000 is "100.0", 5500 is "5.5"
FloatStr(x) ==
    (IF x < 0 THEN <<"-">> ELSE << >>)
        \o NatStr(Abs(x) \div 1000) \o <<".">>
        \o DropTrailingZeros(ZeroPad(NatStr(Abs(x) % 1000), 3))

\* round(x, 2): to the nearest hundredth; an exact tie goes to the even
\* hundredth (the ties a float holds exactly)
Round2(x) ==
    LET q == x \div 10
        r == x % 10
    IN  IF r < 5 THEN q * 10
        ELSE IF r > 5 THEN (q + 1) * 10
        ELSE IF q % 2 = 0 THEN q * 10 ELSE (q + 1) * 10

RECURSIVE SumAmounts(_)
\* sum(item.amount for item in line_items)
SumAmounts(items) ==
    IF Len(items) = 0 THEN 0 ELSE items[1].amount + SumAmounts(Tail(items))

IsLeap(y) == (y % 4 = 0 /\ y % 100 # 0) \/ y % 400 = 0
DaysInMonth(y, m) ==
    IF m = 2 THEN (IF IsLeap(y) THEN 29 ELSE 28)
    ELSE IF m \in {4, 6, 9, 11} THEN 30 ELSE 31

\* the regular expression _strptime compiles a directive to; the day is
\* group 1, the month group 2, the year group 3
DirectiveRegex(tok) ==
    CASE tok = "%d" ->
            RGrp(1, RAlt(<< RSeq(<<RCh("3"), RSet({"0", "1"})>>),
                            RSeq(<<RSet({"1", "2"}), RDigit>>),
                            RSeq(<<RCh("0"), RSet(Digits \ {"0"})>>),
                            RSet(Digits \ {"0"}),
                            RSeq(<<RCh(" "), RSet(Digits \ {"0"})>>) >>))
      [] tok = "%m" ->
            RGrp(2, RAlt(<< RSeq(<<RCh("1"), RSet({"0", "1", "2"})>>),
                            RSeq(<<RCh("0"), RSet(Digits \ {"0"})>>),
                            RSet(Digits \ {"0"}) >>))
      [] tok = "%Y" -> RGrp(3, RSeq(<<RDigit, RDigit, RDigit, RDigit>>))
      [] tok = "%y" -> RGrp(3, RSeq(<<RDigit, RDigit>>))
      [] OTHER -> RCh(tok)

\* the pattern _strptime compiles a format to (it keeps them in a cache)
FormatRegex(fmt) == RSeq([j \in 1..Len(fmt) |-> DirectiveRegex(fmt[j])])
Compiled(fmt) == [fmt |-> fmt, re |-> FormatRegex(fmt),
                  short_year |-> \E j \in 1..Len(fmt) : fmt[j] = "%y"]

\* datetime.strptime(s, fmt).date() for a compiled format of %d, %m, %Y, %y
\* and literal characters: Some(<<year, month, day>>), None for ValueError
Strptime(s, cf) ==
    LET m == MatchAtStart(cf.re, s)
    IN  IF IsNone(m) THEN None
        ELSE IF Val(m).pos # Len(s) + 1 THEN None      \* unconverted data remains
        ELSE LET d == IntOf(Strip(Group(s, Val(m), 1)))
                 mo == IntOf(Group(s, Val(m), 2))
                 yraw == IntOf(Group(s, Val(m), 3))
                 y == IF cf.short_year
                      THEN (IF yraw < 69 THEN 2000 + yraw ELSE 1900 + yraw)
                      ELSE yraw
             IN  IF y < 1 \/ d > DaysInMonth(y, mo) THEN None
                 ELSE Some(<<y, mo, d>>)

\* "%Y-%m-%d"
FormatYmdDash == Compiled(<<"%Y", "-", "%m", "-", "%d">>)

\* date.isoformat()
IsoFormat(d) ==
    ZeroPad(NatStr(d[1]), 4) \o <<"-">> \o ZeroPad(NatStr(d[2]), 2)
        \o <<"-">> \o ZeroPad(NatStr(d[3]), 2)

\* d1 > d2 on dates
DateAfter(d1, d2) ==
    \/ d1[1] > d2[1]
    \/ d1[1] = d2[1] /\ d1[2] > d2[2]
    \/ d1[1] = d2[1] /\ d1[2] = d2[2] /\ d1[3] > d2[3]

(***************************************************************************)
(* ExtractedFields, LineItem, Anomaly                                      *)
(***************************************************************************)
LineItem(description, amount) == [description |-> description, amount |-> amount]

ExtractedFields(vendor, invoice_number, date, currency, subtotal, tax, total, line_items) ==
    [vendor |-> vendor, invoice_number |-> invoice_number, date |-> date,
     currency |-> currency, subtotal |-> subtotal, tax |-> tax, total |-> total,
     line_items |-> line_items]

\* args are the values the code interpolates into the message
Anomaly(code, args, severity) == [code |-> code, args |-> args, severity |-> severity]

Codes(anomalies) == [j \in 1..Len(anomalies) |-> anomalies[j].code]
CountCode(anomalies, code) == Cardinality({j \in 1..Len(anomalies) : anomalies[j].code = code})

\* truthiness of an Optional[str] and of an Optional[float]
TruthyStr(o) == ~IsNone(o) /\ Len(Val(o)) > 0
TruthyNum(o) == ~IsNone(o) /\ Val(o) # 0

(***************************************************************************)
(* The rule checks of models/anomaly_detection.py                          *)
(***************************************************************************)
\* value in (None, "", 0), for the str fields and for the float field
InNoneEmptyZero(o, isNumber) ==
    IF IsNone(o) THEN TRUE
    ELSE IF isNumber THEN Val(o) = 0 ELSE Len(Val(o)) = 0

\* the required fields without the invoice number
RequiredFields_reduced(fields) ==
    << [name |-> "vendor", value |-> fields.vendor, isNumber |-> FALSE],
       [name |-> "date", value |-> fields.date, isNumber |-> FALSE],
       [name |-> "total", value |-> fields.total, isNumber |-> TRUE] >>

RequiredFields(fields) ==
    << [name |-> "vendor", value |-> fields.vendor, isNumber |-> FALSE],
       [name |-> "invoice_number", value |-> fields.invoice_number, isNumber |-> FALSE],
       [name |-> "date", value |-> fields.date, isNumber |-> FALSE],
       [name |-> "total", value |-> fields.total, isNumber |-> TRUE] >>

MissingCode(name) ==
    CASE name = "vendor" -> "missing_vendor"
      [] name = "invoice_number" -> "missing_invoice_number"
      [] name = "date" -> "missing_date"
      [] name = "total" -> "missing_total"

RECURSIVE MissingFrom(_, _)
MissingFrom(required, j) ==
    IF j > Len(required) THEN << >>
    ELSE (IF InNoneEmptyZero(required[j].value, required[j].isNumber)
          THEN << Anomaly(MissingCode(required[j].name), << >>, "high") >>
          ELSE << >>)
         \o MissingFrom(required, j + 1)

_check_missing_fields(fields) == MissingFrom(RequiredFields(fields), 1)

\* the two thresholds joined by "or"
TotalMismatchTest_or(diff, line_sum) == diff * 100 > line_sum \/ diff > 1000

\* diff > 0.01 * line_sum and diff > 1.0
TotalMismatchTest(diff, line_sum) == diff * 100 > line_sum /\ diff > 1000

_check_total_vs_line_items(fields) ==
    IF IsNone(fields.total) \/ Len(fields.line_items) = 0 THEN << >>
    ELSE LET line_sum == SumAmounts(fields.line_items)
             diff == Abs(line_sum - Val(fields.total))
         IN  IF line_sum = 0 THEN << >>
             ELSE IF TotalMismatchTest(diff, line_sum)
                  THEN << Anomaly("total_mismatch", <<Val(fields.total), line_sum, diff>>, "high") >>
                  ELSE << >>

\* the relative threshold at 1% of the total
SubtotalMismatchTest_one_percent(expected, total) ==
    Abs(expected - total) * 100 > total /\ Abs(expected - total) > 1000

\* abs(expected - total) > 0.02 * total and abs(expected - total) > 1.0
SubtotalMismatchTest(expected, total) ==
    Abs(expected - total) * 100 > 2 * total /\ Abs(expected - total) > 1000

_check_subtotal_tax_total(fields) ==
    IF IsNone(fields.subtotal) \/ IsNone(fields.total) THEN << >>
    ELSE IF ~IsNone(fields.tax)
         THEN LET expected_total == Val(fields.subtotal) + Val(fields.tax)
              IN  IF SubtotalMismatchTest(expected_total, Val(fields.total))
                  THEN << Anomaly("subtotal_tax_mismatch",
                                  <<Val(fields.subtotal), Val(fields.tax), expected_total,
                                    Val(fields.total)>>, "high") >>
                  ELSE << >>
         ELSE IF SubtotalMismatchTest(Val(fields.subtotal), Val(fields.total))
              THEN << Anomaly("subtotal_total_mismatch",
                              <<Val(fields.subtotal), Val(fields.total)>>, "medium") >>
              ELSE << >>

\* now is datetime.now().date()
_check_date_future(fields, now) ==
    IF ~TruthyStr(fields.date) THEN << >>
    ELSE IF Len(Val(fields.date)) >= 10
         THEN LET d == Strptime(SubSeq(Val(fields.date), 1, 10), FormatYmdDash)
              IN  IF ~IsNone(d) /\ DateAfter(Val(d), now)
                  THEN << Anomaly("future_date", <<Val(fields.date)>>, "medium") >>
                  ELSE << >>
         ELSE << >>

\* item.description[:40] + ("..." if len(item.description) > 40 else "")
ShortDescription(description) ==
    SubSeq(description, 1, Min2(40, Len(description)))
        \o (IF Len(description) > 40 THEN <<".", ".", ".">> ELSE << >>)

RECURSIVE NegativeItemsFrom(_, _)
NegativeItemsFrom(items, j) ==
    IF j > Len(items) THEN << >>
    ELSE (IF items[j].amount < 0
          THEN << Anomaly("negative_line_item",
                          <<ShortDescription(items[j].description), items[j].amount>>,
                          "medium") >>
          ELSE << >>)
         \o NegativeItemsFrom(items, j + 1)

_check_negative_amounts(fields) ==
    (IF ~IsNone(fields.total) /\ Val(fields.total) < 0
     THEN << Anomaly("negative_total", << >>, "medium") >> ELSE << >>)
    \o (IF ~IsNone(fields.tax) /\ Val(fields.tax) < 0
        THEN << Anomaly("negative_tax", << >>, "high") >> ELSE << >>)
    \o NegativeItemsFrom(fields.line_items, 1)

\* f"{round(amount, 2)}": a negative amount that rounds to zero keeps its
\* sign, round(-0.004, 2) is -0.0 and its string is "-0.0"
RoundedStr(amount) ==
    IF amount < 0 /\ Round2(amount) = 0 THEN <<"-", "0", ".", "0">>
    ELSE FloatStr(Round2(amount))

\* k = f"{description.strip().lower()}|{round(amount, 2)}"
LineItemKey(item) ==
    StrLower(Strip(item.description)) \o <<"|">> \o RoundedStr(item.amount)

RECURSIVE DuplicateItemsFrom(_, _, _)
DuplicateItemsFrom(items, j, seen) ==
    IF j > Len(items) THEN << >>
    ELSE (IF LineItemKey(items[j]) \in seen
          THEN << Anomaly("duplicate_line_item",
                          <<items[j].description, items[j].amount>>, "high") >>
          ELSE << >>)
         \o DuplicateItemsFrom(items, j + 1, seen \cup {LineItemKey(items[j])})

_check_duplicate_line_items(fields) ==
    IF Len(fields.line_items) < 2 THEN << >>
    ELSE DuplicateItemsFrom(fields.line_items, 1, {})

_check_empty_line_items_with_total(fields) ==
    IF ~IsNone(fields.total) /\ Val(fields.total) # 0 /\ Len(fields.line_items) = 0
    THEN << Anomaly("no_line_items", << >>, "medium") >>
    ELSE << >>

\* rate_pct = (tax / subtotal) * 100; rate_pct < 0 or rate_pct > 50
UnusualRate(tax, subtotal) ==
    IF subtotal > 0 THEN tax < 0 \/ tax * 100 > 50 * subtotal
    ELSE tax > 0 \/ tax * 100 < 50 * subtotal

_check_tax_rate_sanity(fields) ==
    IF IsNone(fields.subtotal) \/ IsNone(fields.tax) THEN << >>
    ELSE IF Val(fields.subtotal) = 0 THEN << >>
    ELSE IF UnusualRate(Val(fields.tax), Val(fields.subtotal))
         THEN << Anomaly("unusual_tax_rate", <<Val(fields.tax), Val(fields.subtotal)>>, "low") >>
         ELSE << >>

(***************************************************************************)
(* DuplicateDetector                                                       *)
(***************************************************************************)
\* None, or f"{vendor}|{invoice_number}|{total}"
_build_key(fields) ==
    IF ~(TruthyStr(fields.vendor) /\ TruthyStr(fields.invoice_number) /\ TruthyNum(fields.total))
    THEN None
    ELSE Some(Val(fields.vendor) \o <<"|">> \o Val(fields.invoice_number)
                \o <<"|">> \o FloatStr(Val(fields.total)))

PossibleDuplicate == Anomaly("possible_duplicate", << >>, "high")

\* check_duplicate without the insertion of a new fingerprint
check_duplicate_no_insert(seen, fields) ==
    LET key == _build_key(fields)
    IN  IF IsNone(key) THEN [ret |-> None, seen |-> seen]
        ELSE IF Val(key) \in seen THEN [ret |-> Some(PossibleDuplicate), seen |-> seen]
        ELSE [ret |-> None, seen |-> seen]

\* check_duplicate that forgets a fingerprint once it has reported it
check_duplicate_forget(seen, fields) ==
    LET key == _build_key(fields)
    IN  IF IsNone(key) THEN [ret |-> None, seen |-> seen]
        ELSE IF Val(key) \in seen
             THEN [ret |-> Some(PossibleDuplicate), seen |-> seen \ {Val(key)}]
        ELSE [ret |-> None, seen |-> seen \cup {Val(key)}]

\* check_duplicate on a detector whose _seen_keys is seen: what it returns
\* and the _seen_keys it leaves
check_duplicate(seen, fields) ==
    LET key == _build_key(fields)
    IN  IF IsNone(key) THEN [ret |-> None, seen |-> seen]
        ELSE IF Val(key) \in seen THEN [ret |-> Some(PossibleDuplicate), seen |-> seen]
        ELSE [ret |-> None, seen |-> seen \cup {Val(key)}]

(***************************************************************************)
(* detect_anomalies.  tracker is None (no duplicate_detector) or Some of   *)
(* the detector's _seen_keys.  The result holds the list returned, the     *)
(* detector's _seen_keys afterwards and the fields object afterwards.      *)
(***************************************************************************)
\* the checks with a return after the first one that finds a missing field
RuleChecks_short_circuit(fields, now) ==
    IF Len(_check_missing_fields(fields)) > 0 THEN _check_missing_fields(fields)
    ELSE _check_total_vs_line_items(fields)
            \o _check_subtotal_tax_total(fields)
            \o _check_date_future(fields, now)
            \o _check_negative_amounts(fields)
            \o _check_duplicate_line_items(fields)
            \o _check_empty_line_items_with_total(fields)
            \o _check_tax_rate_sanity(fields)

RuleChecks(fields, now) ==
    _check_missing_fields(fields)
        \o _check_total_vs_line_items(fields)
        \o _check_subtotal_tax_total(fields)
        \o _check_date_future(fields, now)
        \o _check_negative_amounts(fields)
        \o _check_duplicate_line_items(fields)
        \o _check_empty_line_items_with_total(fields)
        \o _check_tax_rate_sanity(fields)

\* detect_anomalies that returns the duplicate finding alone
detect_anomalies_duplicate_only(fields, tracker, now) ==
    LET anomalies == RuleChecks(fields, now)
    IN  IF IsNone(tracker)
        THEN [anomalies |-> anomalies, tracker |-> None, fields |-> fields]
        ELSE LET dup == check_duplicate(Val(tracker), fields)
             IN  [anomalies |-> IF IsNone(dup.ret) THEN anomalies ELSE dup.ret,
                  tracker |-> Some(dup.seen),
                  fields |-> fields]

detect_anomalies(fields, tracker, now) ==
    LET anomalies == RuleChecks(fields, now)
    IN  IF IsNone(tracker)
        THEN [anomalies |-> anomalies, tracker |-> None, fields |-> fields]
        ELSE LET dup == check_duplicate(Val(tracker), fields)
             IN  [anomalies |-> anomalies \o dup.ret,
                  tracker |-> Some(dup.seen),
                  fields |-> fields]

(***************************************************************************)
(* Inputs of the rule engine and of the tracker                            *)
(***************************************************************************)
\* longest line_items list among the inputs of the rule engine
MaxItems == 2

Amt(units, thousandths) == units * 1000 + thousandths

Vendors == {None, Some(<< >>), Some(<<"a">>), Some(<<"a", "|", "b">>)}
InvoiceNumbers == {None, Some(<< >>), Some(<<"7">>), Some(<<"b", "|", "7">>)}
IsoDate == <<"2", "0", "2", "4", "-", "1", "0", "-", "0", "1">>
RawDate == <<"1", "3", "/", "1", "3", "/", "2", "0", "2", "4">>
Dates == {None, Some(<< >>), Some(IsoDate), Some(RawDate)}
\* datetime.now().date() at the call: the day of IsoDate and the day before
Nows == {<<2024, 10, 1>>, <<2024, 9, 30>>}

ItemPool ==
    { LineItem(<<"W", "i", "d", "g", "e", "t">>, Amt(80, 0)),
      LineItem(<<"w", "i", "d", "g", "e", "t", " ">>, Amt(80, 4)),
      LineItem(<<"G", "a", "d", "g", "e", "t">>, Amt(200, 0)),
      LineItem(<<"R", "e", "f", "u", "n", "d">>, Amt(-80, 0)) }
ItemLists == UNION { [1..n -> ItemPool] : n \in 0..MaxItems }

NoFields == ExtractedFields(None, None, None, None, None, None, None, << >>)

\* the fields the tracker is driven with: every combination of the three
\* components of the fingerprint, and one invoice with a date and an item
TrackerTotals == {None, Some(0), Some(Amt(80, 0))}
TrackerFields ==
    { ExtractedFields(v, n, None, None, None, None, t, << >>) :
        v \in Vendors, n \in InvoiceNumbers, t \in TrackerTotals }
    \cup
    { ExtractedFields(Some(<<"a">>), Some(<<"7">>), Some(IsoDate), None, None, None,
                      Some(Amt(80, 0)),
                      << LineItem(<<"W", "i", "d", "g", "e", "t">>, Amt(80, 0)) >>) }

\* the fields the rule checks are driven with: every combination of the four
\* required fields, and every combination of the amounts around the
\* thresholds of the checks
RequiredTotals == {None, Some(0), Some(Amt(80, 0)), Some(Amt(-5, 0))}
AmountTotals ==
    {None, Some(0), Some(Amt(5, 0)), Some(Amt(81, 0)), Some(Amt(81, 1)),
     Some(Amt(201, 500)), Some(Amt(202, 0)), Some(Amt(202, 1)),
     Some(Amt(-81, 0)), Some(Amt(-81, -1)), Some(Amt(100, 0))}
Subtotals == {None, Some(0), Some(Amt(90, 0)), Some(Amt(-90, 0)), Some(Amt(98, 0))}
Taxes == {None, Some(0), Some(Amt(10, 0)), Some(Amt(-10, 0)), Some(Amt(50, 0))}
RichItemLists ==
    { << >>,
      << LineItem(<<"R", "e", "f", "u", "n", "d">>, Amt(-80, 0)),
         LineItem(<<"r", "e", "f", "u", "n", "d">>, Amt(-80, 0)) >> }
\* line items whose keys meet: the same description up to case and blanks,
\* amounts that round to the same hundredth from either side of zero
KeyItemPool ==
    { LineItem(<<"x">>, 0),
      LineItem(<<"X", " ">>, Amt(0, 4)),
      LineItem(<<" ", "x">>, Amt(0, -4)),
      LineItem(<<"y">>, 0) }
KeyItemLists == UNION { [1..n -> KeyItemPool] : n \in 0..(MaxItems + 1) }
RuleFields ==
    { ExtractedFields(Some(<<"a">>), Some(<<"7">>), None, None, None, None, None, items) :
        items \in KeyItemLists }
    \cup
    { ExtractedFields(v, n, d, None, None, None, t, << >>) :
        v \in Vendors, n \in InvoiceNumbers, d \in Dates, t \in RequiredTotals }
    \cup
    { ExtractedFields(Some(<<"a">>), Some(<<"7">>), Some(IsoDate), None, None, None, t, items) :
        t \in AmountTotals, items \in ItemLists }
    \cup
    { ExtractedFields(Some(<<"a">>), Some(<<"7">>), d, None, st, tx, t, items) :
        d \in {None, Some(IsoDate)}, st \in Subtotals, tx \in Taxes,
        t \in AmountTotals, items \in RichItemLists }

(***************************************************************************)
(* The tracker and the rule engine as a state machine: one action per call *)
(***************************************************************************)
NoCall ==
    [op |-> "none", fields |-> NoFields, now |-> <<2024, 10, 1>>, tracked |-> FALSE,
     result |-> << >>, fields_after |-> NoFields, prior |-> {}, before |-> {},
     earlier |-> {}]

Idle ==
    /\ text = << >>
    /\ ex = [pc |-> "idle"]
    /\ tasks = << >>
    /\ running = 0
    /\ api_seen = {}

Init ==
    /\ seen_keys = {}
    /\ built = {}
    /\ call = NoCall
    /\ Idle

\* what a fingerprint is built from
Triple(fields) == <<fields.vendor, fields.invoice_number, fields.total>>

\* history: the triples of the calls made on the tracker so far that built a
\* fingerprint, the one of the call just made among them
Earlier ==
    call.earlier \cup
        (IF call.op \in {"check", "detect"} /\ call.tracked /\ ~IsNone(_build_key(call.fields))
         THEN {Triple(call.fields)} ELSE {})

\* history: the fingerprints built so far, the one of fields among them
Record(fields) ==
    IF IsNone(_build_key(fields)) THEN built ELSE built \cup {Val(_build_key(fields))}

\* duplicate_detector.check_duplicate(fields) on the tracker
CheckDuplicate(fields) ==
    LET r == check_duplicate(seen_keys, fields)
    IN  /\ seen_keys' = r.seen
        /\ built' = Record(fields)
        /\ call' = [op |-> "check", fields |-> fields, now |-> call.now, tracked |-> TRUE,
                    result |-> r.ret, fields_after |-> fields,
                    prior |-> built, before |-> seen_keys, earlier |-> Earlier]
        /\ UNCHANGED <<text, ex, tasks, running, api_seen>>

\* detect_anomalies(fields, duplicate_detector=tracker) at the date now
DetectTracked(fields, now) ==
    LET r == detect_anomalies(fields, Some(seen_keys), now)
    IN  /\ seen_keys' = Val(r.tracker)
        /\ built' = Record(fields)
        /\ call' = [op |-> "detect", fields |-> fields, now |-> now, tracked |-> TRUE,
                    result |-> r.anomalies, fields_after |-> r.fields,
                    prior |-> built, before |-> seen_keys, earlier |-> Earlier]
        /\ UNCHANGED <<text, ex, tasks, running, api_seen>>

\* detect_anomalies(fields) at the date now
DetectUntracked(fields, now) ==
    LET r == detect_anomalies(fields, None, now)
    IN  /\ call' = [op |-> "detect", fields |-> fields, now |-> now, tracked |-> FALSE,
                    result |-> r.anomalies, fields_after |-> r.fields,
                    prior |-> built, before |-> seen_keys, earlier |-> Earlier]
        /\ UNCHANGED <<seen_keys, built, text, ex, tasks, running, api_seen>>

\* every call is made on the date of NoCall
Next ==
    \/ \E f \in TrackerFields : CheckDuplicate(f)
    \/ \E f \in TrackerFields : DetectTracked(f, call.now)
    \/ \E f \in TrackerFields : DetectUntracked(f, call.now)

Spec == Init /\ [][Next]_vars

\* the rule engine on each input of RuleFields: the input is drawn at the
\* start and the calls are made on it
InitRules ==
    /\ seen_keys = {}
    /\ built = {}
    /\ \E f \in RuleFields, now \in Nows :
          call = [NoCall EXCEPT !.op = "input", !.fields = f, !.fields_after = f, !.now = now]
    /\ Idle

NextRules ==
    \/ DetectTracked(call.fields, call.now)
    \/ DetectUntracked(call.fields, call.now)

SpecRules == InitRules /\ [][NextRules]_vars

(***************************************************************************)
(* Properties of the tracker and of the rule engine                        *)
(***************************************************************************)
HasCode(anomalies, code) == \E j \in 1..Len(anomalies) : anomalies[j].code = code
Called == call.op \in {"check", "detect"}
TrackerCalled == Called /\ call.tracked
CallKey == _build_key(call.fields)

\* C1: on one tracker, a call whose fields build the fingerprint F reports
\* possible_duplicate exactly when an earlier call on the tracker built F:
\* the first call with F does not report it and every later one does,
\* whatever other fingerprints were checked in between.
C1_DuplicateMonotonicity ==
    (TrackerCalled /\ ~IsNone(CallKey))
        => (HasCode(call.result, "possible_duplicate") <=> Val(CallKey) \in call.prior)

\* a later call with F, reported, with another fingerprint checked as well
C1_Witness ==
    /\ TrackerCalled
    /\ ~IsNone(CallKey)
    /\ Val(CallKey) \in call.prior
    /\ Cardinality(call.prior) >= 2
    /\ HasCode(call.result, "possible_duplicate")

LineSum == SumAmounts(call.fields.line_items)
LineDiff == Abs(LineSum - Val(call.fields.total))
TotalAndItems == call.op = "detect" /\ ~IsNone(call.fields.total) /\ Len(call.fields.line_items) > 0

\* C3 as stated: with a total and at least one line item, total_mismatch is
\* emitted if and only if |line_sum - total| > max(0.01 * line_sum, 1.0), for
\* every line_sum, zero and negative ones included.
C3_ThresholdAsStated ==
    TotalAndItems
        => (HasCode(call.result, "total_mismatch")
                <=> (LineDiff * 100 > LineSum /\ LineDiff > 1000))

\* C3 amended: the equivalence holds for every line_sum other than zero, and
\* with line_sum = 0 total_mismatch is never emitted.
C3_Threshold ==
    TotalAndItems
        => IF LineSum = 0 THEN ~HasCode(call.result, "total_mismatch")
           ELSE (HasCode(call.result, "total_mismatch")
                    <=> (LineDiff * 100 > LineSum /\ LineDiff > 1000))

\* line items that sum to zero, a total more than 1.0 away, and no finding
C3_Witness ==
    /\ TotalAndItems
    /\ LineSum = 0
    /\ LineDiff > 1000
    /\ ~HasCode(call.result, "total_mismatch")

BlankStr(o) == o = None \/ o = Some(<< >>)
BlankNum(o) == o = None \/ o = Some(0)
ExactlyWhen(code, blank) ==
    /\ CountCode(call.result, code) = (IF blank THEN 1 ELSE 0)
    /\ \A j \in 1..Len(call.result) :
          call.result[j].code = code => call.result[j].severity = "high"

\* C5: for each of vendor, invoice_number, date and total, the list returned
\* holds missing_<field> exactly once, with severity high, when the field is
\* None, empty or zero, and not at all otherwise.
C5_MissingFields ==
    call.op = "detect"
        => /\ ExactlyWhen("missing_vendor", BlankStr(call.fields.vendor))
           /\ ExactlyWhen("missing_invoice_number", BlankStr(call.fields.invoice_number))
           /\ ExactlyWhen("missing_date", BlankStr(call.fields.date))
           /\ ExactlyWhen("missing_total", BlankNum(call.fields.total))

\* an empty vendor and a zero total reported, beside a present invoice number
C5_Witness ==
    /\ call.op = "detect"
    /\ call.fields.vendor = Some(<< >>)
    /\ call.fields.total = Some(0)
    /\ TruthyStr(call.fields.invoice_number)
    /\ HasCode(call.result, "missing_vendor")
    /\ HasCode(call.result, "missing_total")
    /\ ~HasCode(call.result, "missing_invoice_number")

\* C8: the fingerprint set of the tracker is the set of the fingerprints
\* built by the calls made on it.  A call that builds none reports nothing
\* and leaves the set as it was; a call that builds one leaves it in the
\* set; no call removes one.
C8_FingerprintSet ==
    /\ seen_keys = built
    /\ TrackerCalled =>
          /\ call.before \subseteq seen_keys
          /\ IsNone(CallKey) =>
                (~HasCode(call.result, "possible_duplicate") /\ seen_keys = call.before)
          /\ ~IsNone(CallKey) => Val(CallKey) \in seen_keys

\* a fingerprint met again stays in a set of several
C8_Witness ==
    /\ TrackerCalled
    /\ ~IsNone(CallKey)
    /\ Val(CallKey) \in call.before
    /\ Cardinality(seen_keys) >= 2
    /\ seen_keys = call.before

Rank(code) ==
    CASE code = "missing_vendor" -> 1
      [] code = "missing_invoice_number" -> 2
      [] code = "missing_date" -> 3
      [] code = "missing_total" -> 4
      [] code = "total_mismatch" -> 5
      [] code \in {"subtotal_tax_mismatch", "subtotal_total_mismatch"} -> 6
      [] code = "future_date" -> 7
      [] code = "negative_total" -> 8
      [] code = "negative_tax" -> 9
      [] code = "negative_line_item" -> 10
      [] code = "duplicate_line_item" -> 11
      [] code = "no_line_items" -> 12
      [] code = "unusual_tax_rate" -> 13
      [] code = "possible_duplicate" -> 14

WithCode(anomalies, code) == SelectSeq(anomalies, LAMBDA a : a.code = code)
IsNegativeItem(item) == item.amount < 0
NegativeItems == SelectSeq(call.fields.line_items, IsNegativeItem)

\* C9: no check is skipped because an earlier one fired, and the list
\* returned holds the findings in the fixed order of the checks, the
\* negative line items in line order, possible_duplicate last when present.
C9_FixedOrder ==
    call.op = "detect"
        => /\ \A j \in 1..Len(call.result), k \in 1..Len(call.result) :
                j < k => Rank(call.result[j].code) <= Rank(call.result[k].code)
           /\ \A j \in 1..Len(call.result) :
                call.result[j].code = "possible_duplicate" => j = Len(call.result)
           /\ CountCode(call.result, "possible_duplicate") <= 1
           \* each check reports on its own condition, whatever the others found
           /\ HasCode(call.result, "missing_total") <=> BlankNum(call.fields.total)
           /\ HasCode(call.result, "negative_total")
                <=> (~IsNone(call.fields.total) /\ Val(call.fields.total) < 0)
           /\ HasCode(call.result, "negative_tax")
                <=> (~IsNone(call.fields.tax) /\ Val(call.fields.tax) < 0)
           /\ HasCode(call.result, "no_line_items")
                <=> (TruthyNum(call.fields.total) /\ Len(call.fields.line_items) = 0)
           /\ HasCode(call.result, "unusual_tax_rate")
                <=> (~IsNone(call.fields.tax) /\ TruthyNum(call.fields.subtotal)
                     /\ UnusualRate(Val(call.fields.tax), Val(call.fields.subtotal)))
           /\ HasCode(call.result, "future_date")
                <=> (call.fields.date = Some(IsoDate) /\ call.now = <<2024, 9, 30>>)
           /\ LET found == WithCode(call.result, "negative_line_item")
              IN  /\ Len(found) = Len(NegativeItems)
                  /\ \A j \in 1..Len(found) :
                        found[j].args = <<ShortDescription(NegativeItems[j].description),
                                          NegativeItems[j].amount>>
           /\ (TrackerCalled /\ ~IsNone(CallKey) /\ Val(CallKey) \in call.before)
                => HasCode(call.result, "possible_duplicate")

\* a missing date first, findings of four further checks, the duplicate last
C9_Witness ==
    /\ call.op = "detect"
    /\ Len(call.result) >= 7
    /\ call.result[1].code = "missing_date"
    /\ HasCode(call.result, "subtotal_tax_mismatch")
    /\ HasCode(call.result, "negative_line_item")
    /\ HasCode(call.result, "duplicate_line_item")
    /\ HasCode(call.result, "unusual_tax_rate")
    /\ call.result[Len(call.result)].code = "possible_duplicate"

\* the list without a possible_duplicate at its end
WithoutTrailingDuplicate(anomalies) ==
    IF Len(anomalies) > 0 /\ anomalies[Len(anomalies)].code = "possible_duplicate"
    THEN SubSeq(anomalies, 1, Len(anomalies) - 1)
    ELSE anomalies

C10_Frame ==
    /\ call'.fields_after = call'.fields
    /\ UNCHANGED <<text, ex, tasks, running, api_seen>>
    /\ (call'.op = "detect" /\ ~call'.tracked) => seen_keys' = seen_keys
    /\ ~HasCode(WithoutTrailingDuplicate(call'.result), "possible_duplicate")
    /\ (call.op = "detect" /\ call'.op = "detect"
            /\ call'.fields = call.fields /\ call'.now = call.now)
          => WithoutTrailingDuplicate(call'.result) = WithoutTrailingDuplicate(call.result)

\* C10: a call of detect_anomalies leaves its fields argument as it was,
\* changes nothing without a tracker and nothing but the fingerprint set of
\* the tracker with one; two calls on the same fields at the same date, made
\* whatever the tracker holds at each, return the same list but for a
\* possible_duplicate at the end.
C10_PureButTracker == [][C10_Frame]_vars

\* a reported duplicate after the findings of the rule checks, the same
\* fields having been checked just before without the report
C10_Witness ==
    /\ call.op = "detect"
    /\ call.tracked
    /\ Len(call.result) >= 2
    /\ call.result[Len(call.result)].code = "possible_duplicate"
    /\ call.fields_after = call.fields
    /\ Cardinality(call.before) >= 2

(***************************************************************************)
(* The patterns of preprocessing/field_extraction.py                       *)
(***************************************************************************)
ColonOrSpace == RSet({":"} \cup Whitespace)
\* [0-9\.,]+
NumberRun == RPlus(RSet(Digits \cup {".", ","}))
DateSep == RSet({"/", "-"})
\* \d{1,2}[\/\-]\d{1,2}[\/\-]\d{2,4}
DayFirstDate == RSeq(<<RRep(RDigit, 1, 2, TRUE), DateSep, RRep(RDigit, 1, 2, TRUE),
                       DateSep, RRep(RDigit, 2, 4, TRUE)>>)
\* \d{4}[\/\-]\d{1,2}[\/\-]\d{1,2}
YearFirstDate == RSeq(<<RRep(RDigit, 4, 4, TRUE), DateSep, RRep(RDigit, 1, 2, TRUE),
                        DateSep, RRep(RDigit, 1, 2, TRUE)>>)

\* (?:From|Vendor|Bill\s*From|Sold\s*By)[:\s]+([^\n]+), re.IGNORECASE
VendorLabelPattern ==
    RSeq(<< RAlt(<< RLitI(<<"F", "r", "o", "m">>), RLitI(<<"V", "e", "n", "d", "o", "r">>),
                    RSeq(<<RLitI(<<"B", "i", "l", "l">>), RStar(RSpace), RLitI(<<"F", "r", "o", "m">>)>>),
                    RSeq(<<RLitI(<<"S", "o", "l", "d">>), RStar(RSpace), RLitI(<<"B", "y">>)>>) >>),
            RPlus(ColonOrSpace),
            RGrp(1, RPlus(RDot)) >>)

\* ^[\d\s\/\-\.\$<euro><pound>]+$
NumericLinePattern ==
    RSeq(<< RPlus(RSet(Digits \cup Whitespace \cup {"/", "-", ".", "$", "<euro>", "<pound>"})),
            REnd >>)

\* ^(Invoice|Date|Total|Subtotal|Tax), re.I
KeywordLinePattern ==
    RGrp(1, RAlt(<< RLitI(<<"I", "n", "v", "o", "i", "c", "e">>), RLitI(<<"D", "a", "t", "e">>), RLitI(<<"T", "o", "t", "a", "l">>),
                    RLitI(<<"S", "u", "b", "t", "o", "t", "a", "l">>), RLitI(<<"T", "a", "x">>) >>))

\* (?:Invoice\s*#?|Inv\s*No\.?|Invoice\s*Number|Ref\s*#?|ID\s*#?)\s*[:\s]*([A-Za-z0-9\-\/]+)
InvoiceLabelPattern ==
    RSeq(<< RAlt(<< RSeq(<<RLitI(<<"I", "n", "v", "o", "i", "c", "e">>), RStar(RSpace), ROpt(RCh("#"))>>),
                    RSeq(<<RLitI(<<"I", "n", "v">>), RStar(RSpace), RLitI(<<"N", "o">>), ROpt(RCh("."))>>),
                    RSeq(<<RLitI(<<"I", "n", "v", "o", "i", "c", "e">>), RStar(RSpace), RLitI(<<"N", "u", "m", "b", "e", "r">>)>>),
                    RSeq(<<RLitI(<<"R", "e", "f">>), RStar(RSpace), ROpt(RCh("#"))>>),
                    RSeq(<<RLitI(<<"I", "D">>), RStar(RSpace), ROpt(RCh("#"))>>) >>),
            RStar(RSpace), RStar(ColonOrSpace),
            RGrp(1, RPlus(RSet(Letters \cup Digits \cup {"-", "/"}))) >>)

\* \b([A-Z]{2,5}[\-\s]?\d{4,})\b, re.IGNORECASE
InvoiceBarePattern ==
    RSeq(<< RWordB,
            RGrp(1, RSeq(<< RRep(RSet(Letters), 2, 5, TRUE),
                            ROpt(RSet({"-"} \cup Whitespace)),
                            RRep(RDigit, 4, -1, TRUE) >>)),
            RWordB >>)

\* the three date patterns, re.IGNORECASE
DatePatterns ==
    << RSeq(<< RAlt(<< RLitI(<<"D", "a", "t", "e">>),
                       RSeq(<<RLitI(<<"I", "n", "v", "o", "i", "c", "e">>), RStar(RSpace), RLitI(<<"D", "a", "t", "e">>)>>),
                       RSeq(<<RLitI(<<"D", "u", "e">>), RStar(RSpace), RLitI(<<"D", "a", "t", "e">>)>>) >>),
               RStar(ColonOrSpace), RGrp(1, DayFirstDate) >>),
       RSeq(<< RLitI(<<"D", "a", "t", "e">>), RStar(ColonOrSpace), RGrp(1, YearFirstDate) >>),
       RSeq(<< RWordB, RGrp(1, RAlt(<<DayFirstDate, YearFirstDate>>)), RWordB >>) >>

\* "%d/%m/%Y", "%m/%d/%Y", "%Y-%m-%d", "%d-%m-%Y", "%m-%d-%Y", "%d/%m/%y", "%m/%d/%y"
DateFormats ==
    << Compiled(<<"%d", "/", "%m", "/", "%Y">>),
       Compiled(<<"%m", "/", "%d", "/", "%Y">>),
       FormatYmdDash,
       Compiled(<<"%d", "-", "%m", "-", "%Y">>),
       Compiled(<<"%m", "-", "%d", "-", "%Y">>),
       Compiled(<<"%d", "/", "%m", "/", "%y">>),
       Compiled(<<"%m", "/", "%d", "/", "%y">>) >>

\* (\$|<euro>|<pound>|<rupee>|INR|USD|EUR|GBP)
CurrencyPattern ==
    RGrp(1, RAlt(<< RCh("$"), RCh("<euro>"), RCh("<pound>"), RCh("<rupee>"),
                    RLit(<<"I", "N", "R">>), RLit(<<"U", "S", "D">>), RLit(<<"E", "U", "R">>), RLit(<<"G", "B", "P">>) >>))

\* \bSubtotal[:\s]*([0-9\.,]+)
SubtotalPattern ==
    RSeq(<< RWordB, RLitI(<<"S", "u", "b", "t", "o", "t", "a", "l">>), RStar(ColonOrSpace), RGrp(1, NumberRun) >>)

\* \b(?:Tax|VAT|GST)[:\s]*([0-9\.,]+)
TaxPattern ==
    RSeq(<< RWordB, RAlt(<<RLitI(<<"T", "a", "x">>), RLitI(<<"V", "A", "T">>), RLitI(<<"G", "S", "T">>)>>),
            RStar(ColonOrSpace), RGrp(1, NumberRun) >>)

\* [0-9,]+\.?[0-9]*
LooseNumber == RSeq(<< RPlus(RSet(Digits \cup {","})), ROpt(RCh(".")), RStar(RDigit) >>)

\* the seven patterns tried for the total, in order
TotalPatterns ==
    << \* \bTotal\s*(?:Amount)?[:\s]*([0-9\.,]+)
       RSeq(<< RWordB, RLitI(<<"T", "o", "t", "a", "l">>), RStar(RSpace), ROpt(RLitI(<<"A", "m", "o", "u", "n", "t">>)),
               RStar(ColonOrSpace), RGrp(1, NumberRun) >>),
       \* \b(?:Grand\s*)?Total[:\s]*([0-9\.,]+)
       RSeq(<< RWordB, ROpt(RSeq(<<RLitI(<<"G", "r", "a", "n", "d">>), RStar(RSpace)>>)), RLitI(<<"T", "o", "t", "a", "l">>),
               RStar(ColonOrSpace), RGrp(1, NumberRun) >>),
       \* \bAmount\s*Due[:\s]*([0-9\.,]+)
       RSeq(<< RWordB, RLitI(<<"A", "m", "o", "u", "n", "t">>), RStar(RSpace), RLitI(<<"D", "u", "e">>),
               RStar(ColonOrSpace), RGrp(1, NumberRun) >>),
       \* \bNet\s*Amount[:\s]*([0-9\.,]+)
       RSeq(<< RWordB, RLitI(<<"N", "e", "t">>), RStar(RSpace), RLitI(<<"A", "m", "o", "u", "n", "t">>),
               RStar(ColonOrSpace), RGrp(1, NumberRun) >>),
       \* \bBalance\s*(?:Due)?[:\s]*([0-9\.,]+)
       RSeq(<< RWordB, RLitI(<<"B", "a", "l", "a", "n", "c", "e">>), RStar(RSpace), ROpt(RLitI(<<"D", "u", "e">>)),
               RStar(ColonOrSpace), RGrp(1, NumberRun) >>),
       \* (?:Total|Amount)[:\s]*[\$<euro><pound><rupee>\s]*([0-9,]+\.?[0-9]*)
       RSeq(<< RAlt(<<RLitI(<<"T", "o", "t", "a", "l">>), RLitI(<<"A", "m", "o", "u", "n", "t">>)>>), RStar(ColonOrSpace),
               RStar(RSet(CurrencySigns \cup Whitespace)), RGrp(1, LooseNumber) >>),
       \* [\$<euro><pound><rupee>]\s*([0-9,]+\.?[0-9]*)\s*$
       RSeq(<< RSet(CurrencySigns), RStar(RSpace), RGrp(1, LooseNumber),
               RStar(RSpace), REnd >>) >>

\* the amount of a line item with an optional minus sign
LineItemPattern_signed ==
    RSeq(<< RGrp(1, RRep(RDot, 1, -1, FALSE)),
            RPlus(RSpace),
            RGrp(2, RSeq(<< ROpt(RSet(CurrencySigns)), RStar(RSpace), ROpt(RCh("-")),
                            RPlus(RSet(Digits \cup {","})), ROpt(RCh(".")),
                            RRep(RDigit, 0, 2, TRUE) >>)),
            RStar(RSpace), REnd >>)

\* (.+?)\s+([\$<euro><pound><rupee>]?\s*[0-9,]+\.?[0-9]{0,2})\s*$
LineItemPattern ==
    RSeq(<< RGrp(1, RRep(RDot, 1, -1, FALSE)),
            RPlus(RSpace),
            RGrp(2, RSeq(<< ROpt(RSet(CurrencySigns)), RStar(RSpace),
                            RPlus(RSet(Digits \cup {","})), ROpt(RCh(".")),
                            RRep(RDigit, 0, 2, TRUE) >>)),
            RStar(RSpace), REnd >>)

(***************************************************************************)
(* extract_fields_from_text                                                *)
(***************************************************************************)
\* _extract_first_match: match.group(1).strip() if match else None
_extract_first_match(pattern, txt) ==
    LET m == Search(pattern, txt)
    IN  IF IsNone(m) THEN None ELSE Some(Strip(Group(txt, Val(m), 1)))

RECURSIVE FirstMatchOf(_, _, _)
\* _extract_first_match(p1, text) or _extract_first_match(p2, text) or ...
FirstMatchOf(patterns, j, txt) ==
    IF j > Len(patterns) THEN None
    ELSE LET r == _extract_first_match(patterns[j], txt)
         IN  IF j = Len(patterns) \/ TruthyStr(r) THEN r
             ELSE FirstMatchOf(patterns, j + 1, txt)

\* float(s) for a string of digits, "." and "-": ok is FALSE for ValueError
FloatOf(s) ==
    LET negative == Len(s) > 0 /\ s[1] = "-"
        body == IF negative THEN Tail(s) ELSE s
        dots == {j \in 1..Len(body) : body[j] = "."}
        point == IF dots = {} THEN Len(body) + 1 ELSE CHOOSE j \in dots : TRUE
        whole == SubSeq(body, 1, point - 1)
        fraction == SubSeq(body, point + 1, Len(body))
        thousandths == IntOf(SubSeq(fraction \o <<"0", "0", "0">>, 1, 3))
        magnitude == IntOf(whole) * 1000 + thousandths
    IN  IF /\ \A j \in 1..Len(body) : body[j] \in Digits \cup {"."}
           /\ Cardinality(dots) <= 1
           /\ Len(whole) + Len(fraction) > 0
        THEN [ok |-> TRUE, value |-> IF negative THEN -magnitude ELSE magnitude]
        ELSE [ok |-> FALSE, value |-> 0]

KeepNumeric(c) == c \in Digits \cup {".", ",", "-"}
NotComma(c) == c # ","

\* re.sub(r"[^\d.,-]", "", value).replace(",", "")
Cleaned(value) == SelectSeq(SelectSeq(value, KeepNumeric), NotComma)

\* _parse_float that gives 0.0 for a string float() rejects
_parse_float_zero_on_error(value) ==
    IF ~TruthyStr(value) THEN None
    ELSE LET f == FloatOf(Cleaned(Val(value)))
         IN  IF f.ok THEN Some(f.value) ELSE Some(0)

_parse_float(value) ==
    IF ~TruthyStr(value) THEN None
    ELSE LET f == FloatOf(Cleaned(Val(value)))
         IN  IF f.ok THEN Some(f.value) ELSE None

RECURSIVE VendorFromLines(_, _)
VendorFromLines(lines, j) ==
    IF j > Min2(5, Len(lines)) THEN (IF Len(lines) > 0 THEN Some(lines[1]) ELSE None)
    ELSE LET line == Strip(lines[j])
         IN  IF \/ Len(line) = 0
                \/ ~IsNone(MatchAtStart(NumericLinePattern, line))
                \/ ~IsNone(MatchAtStart(KeywordLinePattern, line))
             THEN VendorFromLines(lines, j + 1)
             ELSE IF 2 < Len(line) /\ Len(line) < 80 THEN Some(line)
             ELSE VendorFromLines(lines, j + 1)

_extract_vendor(txt, lines) ==
    LET m == Search(VendorLabelPattern, txt)
        cand == Strip(Group(txt, Val(m), 1))
    IN  IF ~IsNone(m) /\ 2 < Len(cand) /\ Len(cand) < 80 THEN Some(cand)
        ELSE VendorFromLines(lines, 1)

\* lines = [ln.strip() for ln in text.splitlines() if ln.strip()]
NonEmpty(s) == Len(s) > 0
StrippedLines(txt) ==
    LET raw == SplitLines(txt)
    IN  SelectSeq([j \in 1..Len(raw) |-> Strip(raw[j])], NonEmpty)

RECURSIVE FirstDate(_, _)
\* the group of the first date pattern that matches, None when none does
FirstDate(txt, j) ==
    IF j > Len(DatePatterns) THEN None
    ELSE LET m == Search(DatePatterns[j], txt)
         IN  IF ~IsNone(m) THEN Some(Group(txt, Val(m), 1)) ELSE FirstDate(txt, j + 1)

RECURSIVE FirstParse(_, _)
\* the ISO form under the first format that parses, None when none does
FirstParse(date_str, j) ==
    IF j > Len(DateFormats) THEN None
    ELSE LET d == Strptime(date_str, DateFormats[j])
         IN  IF ~IsNone(d) THEN Some(IsoFormat(Val(d))) ELSE FirstParse(date_str, j + 1)

RECURSIVE LineItemsFrom(_, _)
LineItemsFrom(lines, j) ==
    IF j > Len(lines) THEN << >>
    ELSE LET m == Search(LineItemPattern, lines[j])
             desc == Group(lines[j], Val(m), 1)
             amt == _parse_float(Some(Group(lines[j], Val(m), 2)))
         IN  (IF ~IsNone(m) /\ ~IsNone(amt) /\ Len(Strip(desc)) > 0
              THEN << LineItem(Strip(desc), Val(amt)) >>
              ELSE << >>)
             \o LineItemsFrom(lines, j + 1)

\* the backfill under "if not total and line_items"
Backfill_when_falsy(total, line_items) ==
    IF ~TruthyNum(total) /\ Len(line_items) > 0
    THEN Some(Round2(SumAmounts(line_items)))
    ELSE total

\* if total is None and line_items: total = round(sum(...), 2)
Backfill(total, line_items) ==
    IF IsNone(total) /\ Len(line_items) > 0
    THEN Some(Round2(SumAmounts(line_items)))
    ELSE total

\* extract_fields_from_text: the fields returned, with the locals the
\* properties speak of
extract_fields_from_text(txt) ==
    LET lines == StrippedLines(txt)
        vendor == _extract_vendor(txt, lines)
        raw_inv == FirstMatchOf(<<InvoiceLabelPattern, InvoiceBarePattern>>, 1, txt)
        invoice_number ==
            IF TruthyStr(raw_inv)
                  /\ StrLower(Val(raw_inv)) \in {<<"i", "n", "v", "o", "i", "c", "e">>, <<"n", "u", "m", "b", "e", "r">>, <<"n", "o">>}
            THEN None ELSE raw_inv
        date_str == FirstDate(txt, 1)
        parsed_date == IF TruthyStr(date_str) THEN FirstParse(Val(date_str), 1) ELSE None
        currency_match == Search(CurrencyPattern, txt)
        currency == IF IsNone(currency_match) THEN None
                    ELSE Some(Group(txt, Val(currency_match), 1))
        subtotal_str == _extract_first_match(SubtotalPattern, txt)
        tax_str == _extract_first_match(TaxPattern, txt)
        total_str == FirstMatchOf(TotalPatterns, 1, txt)
        subtotal == _parse_float(subtotal_str)
        tax == _parse_float(tax_str)
        total == _parse_float(total_str)
        line_items == LineItemsFrom(lines, 1)
    IN  [fields |-> ExtractedFields(vendor, invoice_number,
                                    IF TruthyStr(parsed_date) THEN parsed_date ELSE date_str,
                                    currency, subtotal, tax,
                                    Backfill(total, line_items), line_items),
         date_str |-> date_str, parsed_date |-> parsed_date,
         subtotal_str |-> subtotal_str, tax_str |-> tax_str, total_str |-> total_str,
         parsed_total |-> total]

(***************************************************************************)
(* The pipeline on a document: extract_fields_from_text, then              *)
(* detect_anomalies without a tracker (tests/test_pipeline.py,             *)
(* _run_full_pipeline).  The document is drawn at the start.               *)
(***************************************************************************)
\* most lines of a document built from the pool of lines
MaxLines == 2

Scenario1 ==
    Join(<< <<"A", "C", "M", "E", " ", "C", "o", "r", "p">>, <<"I", "n", "v", "o", "i", "c", "e", " ", "#", "I", "N", "V", "-", "1", "0", "0", "1">>, <<"D", "a", "t", "e", ":", " ", "0", "1", "/", "1", "0", "/", "2", "0", "2", "4">>, <<"S", "u", "b", "t", "o", "t", "a", "l", ":", " ", "9", "0", ".", "0", "0">>,
            <<"T", "a", "x", ":", " ", "1", "0", ".", "0", "0">>, <<"T", "o", "t", "a", "l", ":", " ", "1", "0", "0", ".", "0", "0">>, << >>, <<"C", "o", "n", "s", "u", "l", "t", "i", "n", "g", " ", "s", "e", "r", "v", "i", "c", "e", "s", " ", "1", "0", "0", ".", "0", "0">> >>, <<"\n">>)

LinePool ==
    { <<"A", "C", "M", "E", " ", "C", "o", "r", "p">>, <<"D", "a", "t", "e", ":", " ", "1", "3", "/", "1", "3", "/", "2", "0", "2", "4">>, <<"S", "u", "b", "t", "o", "t", "a", "l", ":", " ", ".">>, <<"T", "a", "x", ":", " ", ",">>, <<"T", "o", "t", "a", "l", ":", " ", "1", "0", "0", ".", "0", "0">>,
      <<"T", "o", "t", "a", "l", ":", " ", "1", ".", "2", ".", "3">>, <<"T", "o", "t", "a", "l", ":", " ", "0">>, <<"W", "i", "d", "g", "e", "t", " ", "3", ".", "5", "0">>, <<"R", "e", "f", "u", "n", "d", " ", "-", "5", ".", "0", "0">>, <<" ", " ", " ">>,
      <<"T", "o", "t", "a", "l", ":", " ", "-", "5", ".", "0", "0">>, <<"T", "a", "x", " ", "-", "2", ".", "0", "0", " ", "-", " ", "1", ".", "5", "0">> }

Texts ==
    { Join(ls, <<"\n">>) : ls \in UNION { [1..n -> LinePool] : n \in 0..MaxLines } }
        \cup {Scenario1, <<"\n">>, <<" ", "\n", "\t">>}

NoExtraction ==
    [fields |-> NoFields, date_str |-> None, parsed_date |-> None, subtotal_str |-> None,
     tax_str |-> None, total_str |-> None, parsed_total |-> None]

InitExtract ==
    /\ text \in Texts
    /\ ex = [pc |-> "start", out |-> NoExtraction, anomalies |-> << >>]
    /\ seen_keys = {}
    /\ built = {}
    /\ call = NoCall
    /\ tasks = << >>
    /\ running = 0
    /\ api_seen = {}

\* fields = extract_fields_from_text(text); every ValueError of float() and
\* of strptime() is caught where it is raised, so the call returns
ExtractFields ==
    /\ ex.pc = "start"
    /\ ex' = [ex EXCEPT !.pc = "extracted", !.out = extract_fields_from_text(text)]
    /\ UNCHANGED <<text, seen_keys, built, call, tasks, running, api_seen>>

\* anomalies = detect_anomalies(fields, duplicate_detector=None)
DetectOnExtracted ==
    /\ ex.pc = "extracted"
    /\ \E now \in Nows :
          ex' = [ex EXCEPT !.pc = "done",
                           !.anomalies = detect_anomalies(ex.out.fields, None, now).anomalies]
    /\ UNCHANGED <<text, seen_keys, built, call, tasks, running, api_seen>>

NextExtract == ExtractFields \/ DetectOnExtracted

SpecExtract == InitExtract /\ [][NextExtract]_vars

(***************************************************************************)
(* Properties of the extractor                                             *)
(***************************************************************************)
Extracted == ex.pc \in {"extracted", "done"}
Unparseable(str) == TruthyStr(str) /\ ~FloatOf(Cleaned(Val(str))).ok
NoFormatParses(date_str) ==
    \A j \in 1..Len(DateFormats) : IsNone(Strptime(date_str, DateFormats[j]))
Blank(txt) == \A j \in 1..Len(txt) : txt[j] \in Whitespace
NumbersAndDate ==
    /\ ex.pc # "error"
    /\ Unparseable(ex.out.subtotal_str) => ex.out.fields.subtotal = None
    /\ Unparseable(ex.out.tax_str) => ex.out.fields.tax = None
    /\ (~IsNone(ex.out.date_str) /\ NoFormatParses(Val(ex.out.date_str)))
          => ex.out.fields.date = ex.out.date_str
    /\ Blank(text) => ex.out.fields = NoFields

\* C4: on the document of Scenario 1 the pipeline gives the vendor
\* "ACME Corp", the total 100.0 and no total_mismatch.
C4_Scenario1 ==
    (text = Scenario1 /\ ex.pc = "done")
        => /\ ex.out.fields.vendor = Some(<<"A", "C", "M", "E", " ", "C", "o", "r", "p">>)
           /\ ex.out.fields.total = Some(Amt(100, 0))
           /\ ~HasCode(ex.anomalies, "total_mismatch")

\* C6 as stated: the extractor returns for every text; a captured number
\* that does not parse leaves its field None, a captured date that no format
\* parses is kept as captured, and a blank text gives no field at all.
C6_TotalAsStated ==
    Extracted
        => /\ NumbersAndDate
           /\ Unparseable(ex.out.total_str) => ex.out.fields.total = None

\* C6 amended: as stated for subtotal and tax; a captured total that does
\* not parse leaves total None when no line item was extracted, and the
\* rounded sum of the line items when some were.
C6_Total ==
    Extracted
        => /\ NumbersAndDate
           /\ Unparseable(ex.out.total_str) =>
                ex.out.fields.total =
                    (IF Len(ex.out.fields.line_items) = 0 THEN None
                     ELSE Some(Round2(SumAmounts(ex.out.fields.line_items))))

\* a captured total that does not parse, beside an extracted line item
C6_Witness ==
    /\ Extracted
    /\ Unparseable(ex.out.total_str)
    /\ Len(ex.out.fields.line_items) > 0
    /\ ~IsNone(ex.out.fields.total)

\* C7: with no total from the patterns (none matched, or the capture of the
\* first that matched does not parse) and a line item, total is the sum of
\* the line items rounded to two places; a parsed total, 0 included, is
\* returned as parsed; with neither, total is None.
C7_Backfill ==
    Extracted
        => LET f == ex.out.fields
               none == IsNone(ex.out.total_str) \/ Unparseable(ex.out.total_str)
           IN  /\ (none /\ Len(f.line_items) > 0)
                    => f.total = Some(Round2(SumAmounts(f.line_items)))
               /\ (none /\ Len(f.line_items) = 0) => f.total = None
               /\ ~none => f.total = Some(FloatOf(Cleaned(Val(ex.out.total_str))).value)

\* no pattern of the total matched and two line items were summed
C7_Witness ==
    /\ Extracted
    /\ IsNone(ex.out.total_str)
    /\ Len(ex.out.fields.line_items) = 2
    /\ ex.out.fields.total = Some(Amt(7, 0))

(***************************************************************************)
(* The API (api/main.py): request handlers on one event loop, all using    *)
(* the module-level duplicate_detector.  A handler declared "async def"    *)
(* runs on the event loop and leaves it only at an await or when it ends;  *)
(* the statements of check_duplicate are steps of their own, so that what  *)
(* can come between them is decided by the scheduling and by nothing else. *)
(* The OCR collaborator returns the text of the uploaded document or       *)
(* raises.                                                                 *)
(***************************************************************************)
\* requests handled
NumTasks == 2

Endpoints == {"/health", "/api/upload", "/api/extract", "/api/summary",
              "/api/analyze", "/process-invoice"}
\* the tracker left out of api_summary
TrackerEndpoints_without_summary == {"/api/analyze", "/process-invoice"}

\* the endpoints whose handler calls detect_anomalies with duplicate_detector
TrackerEndpoints == {"/api/summary", "/api/analyze", "/process-invoice"}

\* the documents uploaded: the one of test_duplicate_detection and the one
\* of test_receipt_basic
Docs ==
    << Join(<< <<"V", "e", "n", "d", "o", "r", " ", "X">>, <<"I", "n", "v", "o", "i", "c", "e", " ", "#", "D", "X", "-", "9">>, <<"D", "a", "t", "e", ":", " ", "0", "5", "/", "1", "0", "/", "2", "0", "2", "4">>, <<"T", "o", "t", "a", "l", ":", " ", "8", "0", ".", "0", "0">>,
               << >>, <<"S", "e", "r", "v", "i", "c", "e", " ", " ", "8", "0", ".", "0", "0">> >>, <<"\n">>),
       Join(<< <<"C", "o", "f", "f", "e", "e", " ", "S", "h", "o", "p">>, <<"R", "e", "c", "e", "i", "p", "t">>, <<"D", "a", "t", "e", ":", " ", "0", "2", "/", "1", "0", "/", "2", "0", "2", "4">>, <<"T", "o", "t", "a", "l", ":", " ", "5", ".", "5", "0">>,
               << >>, <<"L", "a", "t", "t", "e", " ", " ", "5", ".", "5", "0">> >>, <<"\n">>) >>
DocFields == [d \in 1..Len(Docs) |-> extract_fields_from_text(Docs[d]).fields]

NoTask ==
    [endpoint |-> "/health", doc |-> 1, pc |-> "idle", after |-> {},
     fields |-> None, key |-> None, observed |-> "none", anomalies |-> << >>]

InitAPI ==
    /\ tasks = [t \in 1..NumTasks |-> NoTask]
    /\ running = 0
    /\ api_seen = {}
    /\ text = << >>
    /\ ex = [pc |-> "idle"]
    /\ seen_keys = {}
    /\ built = {}
    /\ call = NoCall

\* handlers run on threads of their own: a step never waits for another
MayRun_threads(t) == TRUE

\* coroutine t may take a step: the event loop runs it or runs nothing
MayRun(t) == running \in {0, t}

\* the positions at which a coroutine has left the event loop: at
\* "await file.read()" and when the handler has ended
Suspended(pc) == pc \in {"await_read", "done", "failed", "rejected"}

Step(t, task) ==
    /\ tasks' = [tasks EXCEPT ![t] = task]
    /\ running' = IF Suspended(task.pc) THEN 0 ELSE t
    /\ UNCHANGED <<text, ex, seen_keys, built, call>>

\* a request arrives and its handler runs up to its first await; health_check
\* takes no document and ends at once, _process_invoice_internal rejects a
\* file without a name
Receive(t, endpoint, doc, named) ==
    /\ tasks[t].pc = "idle"
    /\ MayRun(t)
    /\ Step(t, [NoTask EXCEPT
                  !.endpoint = endpoint,
                  !.doc = IF endpoint = "/health" THEN NoTask.doc ELSE doc,
                  !.after = {u \in 1..NumTasks : tasks[u].pc = "done"},
                  !.pc = IF endpoint = "/health" THEN "done"
                         ELSE IF endpoint \in {"/api/analyze", "/process-invoice"} /\ ~named
                         THEN "rejected"
                         ELSE "await_read"])
    /\ UNCHANGED api_seen

\* content = await file.read() returns; path.write_bytes(content)
Resume(t) ==
    /\ tasks[t].pc = "await_read"
    /\ MayRun(t)
    /\ Step(t, [tasks[t] EXCEPT
                  !.pc = IF tasks[t].endpoint = "/api/upload" THEN "done" ELSE "ocr"])
    /\ UNCHANGED api_seen

\* extract_text_from_upload and extract_fields_from_text; OCR may raise
ExtractStep(t) ==
    /\ tasks[t].pc = "ocr"
    /\ MayRun(t)
    /\ \/ Step(t, [tasks[t] EXCEPT
                     !.fields = Some(DocFields[tasks[t].doc]),
                     !.pc = IF tasks[t].endpoint \in TrackerEndpoints THEN "rules" ELSE "done"])
       \/ Step(t, [tasks[t] EXCEPT !.pc = "failed"])
    /\ UNCHANGED api_seen

\* detect_anomalies: the eight rule checks
RunRules(t) ==
    /\ tasks[t].pc = "rules"
    /\ MayRun(t)
    /\ \E now \in Nows :
          Step(t, [tasks[t] EXCEPT
                     !.anomalies = RuleChecks(Val(tasks[t].fields), now),
                     !.pc = "lookup"])
    /\ UNCHANGED api_seen

\* check_duplicate up to "if key in self._seen_keys"
Lookup(t) ==
    /\ tasks[t].pc = "lookup"
    /\ MayRun(t)
    /\ LET key == _build_key(Val(tasks[t].fields))
       IN  Step(t, IF IsNone(key)
                   THEN [tasks[t] EXCEPT !.pc = "return"]
                   ELSE IF Val(key) \in api_seen
                   THEN [tasks[t] EXCEPT
                           !.key = key, !.observed = "present", !.pc = "return",
                           !.anomalies = tasks[t].anomalies \o <<PossibleDuplicate>>]
                   ELSE [tasks[t] EXCEPT !.key = key, !.observed = "absent", !.pc = "insert"])
    /\ UNCHANGED api_seen

\* self._seen_keys.add(key)
Insert(t) ==
    /\ tasks[t].pc = "insert"
    /\ MayRun(t)
    /\ api_seen' = api_seen \cup {Val(tasks[t].key)}
    /\ Step(t, [tasks[t] EXCEPT !.pc = "return"])

\* the summary is generated and the response returned
Return(t) ==
    /\ tasks[t].pc = "return"
    /\ MayRun(t)
    /\ Step(t, [tasks[t] EXCEPT !.pc = "done"])
    /\ UNCHANGED api_seen

NextAPI ==
    \E t \in 1..NumTasks :
        \/ \E e \in Endpoints, d \in 1..Len(Docs), named \in BOOLEAN : Receive(t, e, d, named)
        \/ Resume(t)
        \/ ExtractStep(t)
        \/ RunRules(t)
        \/ Lookup(t)
        \/ Insert(t)
        \/ Return(t)

SpecAPI == InitAPI /\ [][NextAPI]_vars

\* C2: of the requests that run at the same time on the shared tracker with
\* the same fingerprint, no two find it absent: one finds it absent and every
\* other one finds it present.
C2_AtomicLookupInsert ==
    \A t \in 1..NumTasks, u \in 1..NumTasks :
        /\ (t # u /\ tasks[t].observed = "absent" /\ tasks[u].observed = "absent")
              => tasks[t].key # tasks[u].key
        /\ tasks[t].observed = "present"
              => \E v \in 1..NumTasks :
                    v # t /\ tasks[v].observed = "absent" /\ tasks[v].key = tasks[t].key
        /\ tasks[t].pc = "done"
              => (HasCode(tasks[t].anomalies, "possible_duplicate")
                     <=> tasks[t].observed = "present")

\* neither request was answered when the other was received
Concurrent(t, u) == t \notin tasks[u].after /\ u \notin tasks[t].after

\* two requests with one fingerprint, each received before the other was
\* answered: one reported as a duplicate and the other not
C2_Witness ==
    \E t \in 1..NumTasks, u \in 1..NumTasks :
        /\ tasks[t].pc = "done" /\ tasks[u].pc = "done"
        /\ Concurrent(t, u)
        /\ tasks[t].key = tasks[u].key
        /\ tasks[t].observed = "absent"
        /\ tasks[u].observed = "present"
        /\ HasCode(tasks[u].anomalies, "possible_duplicate")
        /\ ~HasCode(tasks[t].anomalies, "possible_duplicate")

(***************************************************************************)
(* Further properties of the rule engine                                   *)
(***************************************************************************)
Max2(a, b) == IF a > b THEN a ELSE b
\* d > max(0.02 * total, 1.0), in thousandths
OverTwoPercentOrOne(d, total) == d * 100 > Max2(2 * total, 100000)
EmittedWhen(code, severity, condition) ==
    /\ CountCode(call.result, code) = (IF condition THEN 1 ELSE 0)
    /\ \A j \in 1..Len(call.result) :
          call.result[j].code = code => call.result[j].severity = severity

\* C11: with subtotal and total present and tax present, subtotal_tax_mismatch
\* (high) is emitted iff |subtotal + tax - total| > max(0.02 * total, 1.0) and
\* subtotal_total_mismatch never; with tax absent, subtotal_total_mismatch
\* (medium) is emitted iff |subtotal - total| > max(0.02 * total, 1.0) and
\* subtotal_tax_mismatch never; with subtotal or total absent, neither.
C11_SubtotalTaxTotal ==
    call.op = "detect"
        => LET f == call.fields
           IN  IF IsNone(f.subtotal) \/ IsNone(f.total)
               THEN /\ ~HasCode(call.result, "subtotal_tax_mismatch")
                    /\ ~HasCode(call.result, "subtotal_total_mismatch")
               ELSE IF ~IsNone(f.tax)
               THEN /\ EmittedWhen("subtotal_tax_mismatch", "high",
                          OverTwoPercentOrOne(
                              Abs(Val(f.subtotal) + Val(f.tax) - Val(f.total)), Val(f.total)))
                    /\ ~HasCode(call.result, "subtotal_total_mismatch")
               ELSE /\ EmittedWhen("subtotal_total_mismatch", "medium",
                          OverTwoPercentOrOne(
                              Abs(Val(f.subtotal) - Val(f.total)), Val(f.total)))
                    /\ ~HasCode(call.result, "subtotal_tax_mismatch")

\* subtotal 98.0, tax 0.0, total 100.0: the difference is 2% of the total
\* exactly, more than 1.0, and nothing is emitted
C11_Witness ==
    /\ call.op = "detect"
    /\ call.fields.subtotal = Some(Amt(98, 0))
    /\ call.fields.tax = Some(0)
    /\ call.fields.total = Some(Amt(100, 0))
    /\ ~HasCode(call.result, "subtotal_tax_mismatch")
    /\ ~HasCode(call.result, "subtotal_total_mismatch")

\* the key of a line item as a pair: the description trimmed and lowercased,
\* the amount rounded to 2 decimals
PairKey(item) == <<StrLower(Strip(item.description)), Round2(item.amount)>>
RepeatsEarlier(items, j) == \E i \in 1..(j - 1) : PairKey(items[i]) = PairKey(items[j])
DistinctKeys(items) == {PairKey(items[j]) : j \in 1..Len(items)}
DuplicateLines ==
    SelectSeq(call.result, LAMBDA a : a.code = "duplicate_line_item")
RepeatedItems ==
    SelectSeq([j \in 1..Len(call.fields.line_items) |->
                  [item |-> call.fields.line_items[j],
                   repeats |-> RepeatsEarlier(call.fields.line_items, j)]],
              LAMBDA e : e.repeats)

\* C12: one duplicate_line_item for each line item whose key (description
\* trimmed and lowercased, amount rounded to 2 decimals) equals the key of an
\* earlier item, in the order of the items, and none for a first occurrence;
\* their number is the number of items minus the number of distinct keys.
C12_DuplicateLineItems ==
    call.op = "detect"
        => /\ Len(DuplicateLines) = Len(RepeatedItems)
           /\ \A j \in 1..Len(DuplicateLines) :
                 j <= Len(RepeatedItems) =>
                    DuplicateLines[j].args = <<RepeatedItems[j].item.description,
                                               RepeatedItems[j].item.amount>>
           /\ Len(DuplicateLines)
                 = Len(call.fields.line_items) - Cardinality(DistinctKeys(call.fields.line_items))

\* C13: check_duplicate reports possible_duplicate for fields only if an
\* earlier call on the same tracker had fields with the same vendor, the same
\* invoice_number and the same total.
C13_SoundDuplicate ==
    (TrackerCalled /\ HasCode(call.result, "possible_duplicate"))
        => Triple(call.fields) \in call.earlier

\* the requests that have passed self._seen_keys.add(key)
Recorded ==
    {t \in 1..NumTasks : tasks[t].observed = "absent" /\ tasks[t].pc \in {"return", "done"}}

\* C14: the handlers share one tracker that is never reset.  The tracker
\* holds the fingerprints recorded by the requests to /api/summary,
\* /api/analyze and /process-invoice and nothing else; a request to
\* /api/extract, /api/upload or /health never reads it; and a document with a
\* fingerprint, answered on one of the three and submitted again afterwards to
\* /api/analyze or /process-invoice, is answered with possible_duplicate.
C14_SharedTracker ==
    /\ api_seen = {Val(tasks[t].key) : t \in Recorded}
    /\ \A t \in 1..NumTasks :
          /\ tasks[t].endpoint \in {"/api/extract", "/api/upload", "/health"}
                => (tasks[t].observed = "none" /\ IsNone(tasks[t].key)
                       /\ tasks[t].pc \notin {"rules", "lookup", "insert", "return"})
          /\ tasks[t].observed = "absent"
                => tasks[t].endpoint \in {"/api/summary", "/api/analyze", "/process-invoice"}
    /\ \A t \in 1..NumTasks, u \in 1..NumTasks :
          ( /\ tasks[u].pc = "done"
            /\ tasks[u].endpoint \in {"/api/analyze", "/process-invoice"}
            /\ t \in tasks[u].after
            /\ tasks[t].endpoint \in {"/api/summary", "/api/analyze", "/process-invoice"}
            /\ tasks[t].doc = tasks[u].doc
            /\ ~IsNone(_build_key(Val(tasks[u].fields))) )
          => HasCode(tasks[u].anomalies, "possible_duplicate")

\* a document answered on /api/summary, then submitted to /api/analyze and
\* answered with possible_duplicate
C14_Witness ==
    \E t \in 1..NumTasks, u \in 1..NumTasks :
        /\ tasks[t].endpoint = "/api/summary"
        /\ tasks[t].pc = "done"
        /\ tasks[u].endpoint = "/api/analyze"
        /\ tasks[u].pc = "done"
        /\ t \in tasks[u].after
        /\ tasks[t].doc = tasks[u].doc
        /\ HasCode(tasks[u].anomalies, "possible_duplicate")
        /\ api_seen = {Val(tasks[t].key)}

NotNegative(o) == IsNone(o) \/ Val(o) >= 0
HasMinus(txt) == \E j \in 1..Len(txt) : txt[j] = "-"

\* C15: every number extract_fields_from_text returns (subtotal, tax, total
\* and the amount of each line item) is None or at least 0, and
\* detect_anomalies on the extracted fields emits none of negative_total,
\* negative_tax and negative_line_item, whatever the text.
C15_NoNegativeAmounts ==
    Extracted
        => /\ NotNegative(ex.out.fields.subtotal)
           /\ NotNegative(ex.out.fields.tax)
           /\ NotNegative(ex.out.fields.total)
           /\ \A j \in 1..Len(ex.out.fields.line_items) :
                 ex.out.fields.line_items[j].amount >= 0
           /\ ex.pc = "done"
                 => /\ ~HasCode(ex.anomalies, "negative_total")
                    /\ ~HasCode(ex.anomalies, "negative_tax")
                    /\ ~HasCode(ex.anomalies, "negative_line_item")

\* a text with minus signs before its amounts, a line item and a total
\* extracted from it, and the rule checks run
C15_Witness ==
    /\ ex.pc = "done"
    /\ HasMinus(text)
    /\ Len(ex.out.fields.line_items) > 0
    /\ ~IsNone(ex.out.fields.total)
    /\ ~HasCode(ex.anomalies, "negative_line_item")

====
